---- MODULE Spec2Model ----
(***************************************************************************)
(* StorageClassObjectStore (zerofs/src/storage_class_wrapper.rs): a        *)
(* decorator over an ObjectStore that inserts Attribute::StorageClass into *)
(* the options of the four write operations and forwards every other       *)
(* operation to the wrapped store.                                         *)
(*                                                                         *)
(* A call travels  caller -> decorator (one per layer of a stack) ->       *)
(* backend  and its result travels back.  Every handler of the decorator   *)
(* is one action; the wrapped backend is an in-memory object store.        *)
(***************************************************************************)
EXTENDS Integers, Sequences, FiniteSets, TLC

VARIABLES
    decorators,   \* decorators[k]: the StorageClassObjectStore of layer k (1 is next to the backend)
    constructed,  \* constructed[k]: the arguments new() was called with for layer k
    store,        \* the backend's objects: location -> [payload, attributes]
    calls         \* calls[c]: the call of caller c, its position and what it caused

vars == <<decorators, constructed, store, calls>>

----------------------------------------------------------------------------
\* Bounds and input sets

\* the largest number of decorators stacked over the backend
MaxDepth == 2
\* the largest end of a byte range asked of get_range / get_ranges
MaxRange == 2

Callers == {1, 2}
Labels == {"GLACIER", "STANDARD"}
\* a Path is the sequence of its parts: a/b and x
Locations == {<<"a", "b">>, <<"x">>}
\* the order the backend lists locations in
ListOrder == << <<"a", "b">>, <<"x">> >>
\* an absent prefix (Option::None) is the empty path
Prefixes == {<< >>, <<"a">>}
Payloads == {<<1, 2>>, <<3>>}

StorageClass == "StorageClass"
ContentType == "ContentType"
AttrKeys == {StorageClass, ContentType}
AttrValues(k) == IF k = StorageClass THEN Labels ELSE {"text/plain"}

Attributes == UNION {{f \in [S -> Labels \cup {"text/plain"}] : \A k \in S : f[k] \in AttrValues(k)} : S \in SUBSET AttrKeys}
NoAttributes == [k \in {} |-> ""]

\* PutOptions { mode, tags, attributes, extensions }
PutOptionsDefault == [mode |-> "Overwrite", tags |-> "", attributes |-> NoAttributes, extensions |-> ""]
\* PutMultipartOptions { tags, attributes, extensions }
PutMultipartOptionsDefault == [tags |-> "", attributes |-> NoAttributes, extensions |-> ""]

PutOptionsInputs ==
    {[mode |-> f[1], tags |-> f[2], attributes |-> a, extensions |-> f[3]] :
        f \in {<<"Overwrite", "", "">>, <<"Create", "k=v", "">>, <<"Overwrite", "", "ext">>},
        a \in Attributes}
PutMultipartOptionsInputs ==
    {[tags |-> f[1], attributes |-> a, extensions |-> f[2]] :
        f \in {<<"", "">>, <<"k=v", "ext">>}, a \in Attributes}
GetOptionsInputs == {[head |-> h] : h \in BOOLEAN}
Ranges == {<<lo, hi>> : lo \in 0..MaxRange, hi \in 0..MaxRange}
RangeLists == {<< >>} \cup {<<r>> : r \in Ranges} \cup {<<r, <<0, 1>> >> : r \in Ranges}

WriteOps == {"put", "put_opts", "put_multipart", "put_multipart_opts"}

Call(op, args) == [op |-> op, args |-> args]
NoCall == Call("none", [location |-> << >>])

----------------------------------------------------------------------------
\* The decorator

\* new() that keeps a fixed class instead of the one it is given
NewWithFixedClass(inner, storage_class) == [inner |-> inner, storage_class |-> "STANDARD"]

\* StorageClassObjectStore::new
New(inner, storage_class) == [inner |-> inner, storage_class |-> storage_class]

\* HashMap::insert on an attribute set: the entry of key k is added or replaced
Insert(attrs, k, v) == [x \in DOMAIN attrs \cup {k} |-> IF x = k THEN v ELSE attrs[x]]

\* the attribute sets of the put_opts calls of other callers that wait for the backend
WaitingAttributes ==
    {calls[c].cur.args.opts.attributes :
        c \in {d \in DOMAIN calls : calls[d].pc = "called" /\ calls[d].layer = 0 /\ calls[d].cur.op = "put_opts"}}

\* the merge that keeps a caller's own storage class (entry().or_insert)
add_storage_class_to_put_if_absent(self, opts) ==
    LET attrs == IF StorageClass \in DOMAIN opts.attributes
                 THEN opts.attributes
                 ELSE Insert(opts.attributes, StorageClass, self.storage_class)
    IN  [opts EXCEPT !.attributes = attrs]

\* the merge done in one attribute map shared by the calls in flight
add_storage_class_to_put_shared(self, opts) ==
    LET own == IF WaitingAttributes = {} THEN opts.attributes ELSE CHOOSE a \in WaitingAttributes : TRUE
    IN  [opts EXCEPT !.attributes = Insert(own, StorageClass, self.storage_class)]

add_storage_class_to_put(self, opts) ==
    LET attrs == Insert(opts.attributes, StorageClass, self.storage_class)
    IN  [opts EXCEPT !.attributes = attrs]

\* the merge that keeps a caller's own storage class
add_storage_class_to_multipart_if_absent(self, opts) ==
    LET attrs == IF StorageClass \in DOMAIN opts.attributes
                 THEN opts.attributes
                 ELSE Insert(opts.attributes, StorageClass, self.storage_class)
    IN  [opts EXCEPT !.attributes = attrs]

\* the merge that builds the options anew and loses the caller's
add_storage_class_to_multipart_default(self, opts) ==
    [PutMultipartOptionsDefault EXCEPT
        !.attributes = Insert(NoAttributes, StorageClass, self.storage_class)]

add_storage_class_to_multipart(self, opts) ==
    LET attrs == Insert(opts.attributes, StorageClass, self.storage_class)
    IN  [opts EXCEPT !.attributes = attrs]

\* put that calls the backend's plain put
put_plain(self, location, payload) == Call("put", [location |-> location, payload |-> payload])

\* put that labels only the first write of a location
put_first_write_only(self, location, payload) ==
    LET opts == IF location \in DOMAIN store
                THEN PutOptionsDefault
                ELSE add_storage_class_to_put(self, PutOptionsDefault)
    IN  Call("put_opts", [location |-> location, payload |-> payload, opts |-> opts])

\* Each handler: the call it makes on self.inner for its arguments.
put(self, location, payload) ==
    LET opts == add_storage_class_to_put(self, PutOptionsDefault)
    IN  Call("put_opts", [location |-> location, payload |-> payload, opts |-> opts])

put_opts(self, location, payload, opts) ==
    LET opts2 == add_storage_class_to_put(self, opts)
    IN  Call("put_opts", [location |-> location, payload |-> payload, opts |-> opts2])

put_multipart(self, location) ==
    LET opts == add_storage_class_to_multipart(self, PutMultipartOptionsDefault)
    IN  Call("put_multipart_opts", [location |-> location, opts |-> opts])

put_multipart_opts(self, location, opts) ==
    LET opts2 == add_storage_class_to_multipart(self, opts)
    IN  Call("put_multipart_opts", [location |-> location, opts |-> opts2])

get(self, location) == Call("get", [location |-> location])

get_opts(self, location, options) == Call("get_opts", [location |-> location, options |-> options])

get_range(self, location, range) == Call("get_range", [location |-> location, range |-> range])

get_ranges(self, location, ranges) == Call("get_ranges", [location |-> location, ranges |-> ranges])

head(self, location) == Call("head", [location |-> location])

delete(self, location) == Call("delete", [location |-> location])

list(self, prefix) == Call("list", [prefix |-> prefix])

list_with_offset(self, prefix, offset) == Call("list_with_offset", [prefix |-> prefix, offset |-> offset])

list_with_delimiter(self, prefix) == Call("list_with_delimiter", [prefix |-> prefix])

copy(self, from, to) == Call("copy", [from |-> from, to |-> to])

rename(self, from, to) == Call("rename", [from |-> from, to |-> to])

copy_if_not_exists(self, from, to) == Call("copy_if_not_exists", [from |-> from, to |-> to])

\* rename_if_not_exists that forwards to the unconditional rename
rename_if_not_exists_unconditional(self, from, to) == Call("rename", [from |-> from, to |-> to])

rename_if_not_exists(self, from, to) == Call("rename_if_not_exists", [from |-> from, to |-> to])

\* a handler that maps every backend error to its own error kind
returned_wrapped(result) == IF result.ok THEN result ELSE [result EXCEPT !.err = "Generic"]

\* What a handler returns: the value of its awaited call on self.inner, as it is.
returned(result) == result

----------------------------------------------------------------------------
\* The wrapped backend (self.inner at the bottom of the stack): an in-memory
\* object store, a function of its objects and of the call it receives.

Ok(value) == [ok |-> TRUE, err |-> "", value |-> value]
Err(kind) == [ok |-> FALSE, err |-> kind, value |-> << >>]
NoResult == Err("none")

Object(payload, attributes) == [payload |-> payload, attributes |-> attributes]
StoreObject(s, loc, obj) == [l \in DOMAIN s \cup {loc} |-> IF l = loc THEN obj ELSE s[l]]
RemoveObject(s, loc) == [l \in DOMAIN s \ {loc} |-> s[l]]

ObjectMeta(s, loc) == [location |-> loc, size |-> Len(s[loc].payload)]
\* a location is listed under a prefix when it has at least one more part
UnderPrefix(prefix, loc) == Len(prefix) < Len(loc) /\ SubSeq(loc, 1, Len(prefix)) = prefix
Position(loc) == CHOOSE i \in 1..Len(ListOrder) : ListOrder[i] = loc
Listed(s, prefix) == SelectSeq(ListOrder, LAMBDA l : l \in DOMAIN s /\ UnderPrefix(prefix, l))
Metas(s, locs) == [i \in 1..Len(locs) |-> ObjectMeta(s, locs[i])]

ValidRange(payload, r) == r[1] < r[2] /\ r[2] <= Len(payload)
Bytes(payload, r) == SubSeq(payload, r[1] + 1, r[2])

BackendPut(s, location, payload, opts) ==
    IF opts.mode = "Create" /\ location \in DOMAIN s
    THEN [store |-> s, result |-> Err("AlreadyExists")]
    ELSE [store |-> StoreObject(s, location, Object(payload, opts.attributes)),
          result |-> Ok(<<"PutResult", location>>)]

BackendPutMultipart(s, location, opts) ==
    [store |-> s, result |-> Ok(<<"MultipartUpload", location, opts.attributes>>)]

BackendGet(s, location, options) ==
    IF location \notin DOMAIN s
    THEN [store |-> s, result |-> Err("NotFound")]
    ELSE [store |-> s,
          result |-> Ok(<<"GetResult", ObjectMeta(s, location), s[location].attributes,
                          IF options.head THEN << >> ELSE s[location].payload>>)]

BackendGetRanges(s, location, ranges) ==
    IF location \notin DOMAIN s
    THEN [store |-> s, result |-> Err("NotFound")]
    ELSE IF \E i \in 1..Len(ranges) : ~ValidRange(s[location].payload, ranges[i])
    THEN [store |-> s, result |-> Err("InvalidRange")]
    ELSE [store |-> s,
          result |-> Ok(<<"Bytes", [i \in 1..Len(ranges) |-> Bytes(s[location].payload, ranges[i])]>>)]

BackendHead(s, location) ==
    IF location \notin DOMAIN s
    THEN [store |-> s, result |-> Err("NotFound")]
    ELSE [store |-> s, result |-> Ok(<<"ObjectMeta", ObjectMeta(s, location)>>)]

BackendDelete(s, location) ==
    IF location \notin DOMAIN s
    THEN [store |-> s, result |-> Err("NotFound")]
    ELSE [store |-> RemoveObject(s, location), result |-> Ok(<<"unit">>)]

BackendList(s, prefix, after) ==
    LET locs == SelectSeq(Listed(s, prefix), LAMBDA l : Position(l) > after)
    IN  [store |-> s, result |-> Ok(<<"stream", Metas(s, locs)>>)]

BackendListWithDelimiter(s, prefix) ==
    LET under == Listed(s, prefix)
        objects == SelectSeq(under, LAMBDA l : Len(l) = Len(prefix) + 1)
        deeper == {under[i] : i \in {j \in 1..Len(under) : Len(under[j]) > Len(prefix) + 1}}
        common_prefixes == {SubSeq(l, 1, Len(prefix) + 1) : l \in deeper}
    IN  [store |-> s, result |-> Ok(<<"ListResult", common_prefixes, Metas(s, objects)>>)]

BackendCopy(s, from, to, overwrite, move) ==
    IF from \notin DOMAIN s
    THEN [store |-> s, result |-> Err("NotFound")]
    ELSE IF ~overwrite /\ to \in DOMAIN s
    THEN [store |-> s, result |-> Err("AlreadyExists")]
    ELSE LET copied == StoreObject(s, to, s[from])
         IN  [store |-> IF move /\ from # to THEN RemoveObject(copied, from) ELSE copied,
              result |-> Ok(<<"unit">>)]

\* the backend's new objects and its result for one call
Backend(s, call) ==
    LET a == call.args IN
    CASE call.op = "put" -> BackendPut(s, a.location, a.payload, PutOptionsDefault)
      [] call.op = "put_opts" -> BackendPut(s, a.location, a.payload, a.opts)
      [] call.op = "put_multipart" -> BackendPutMultipart(s, a.location, PutMultipartOptionsDefault)
      [] call.op = "put_multipart_opts" -> BackendPutMultipart(s, a.location, a.opts)
      [] call.op = "get" -> BackendGet(s, a.location, [head |-> FALSE])
      [] call.op = "get_opts" -> BackendGet(s, a.location, a.options)
      [] call.op = "get_range" ->
            LET r == BackendGetRanges(s, a.location, <<a.range>>)
            IN  [r EXCEPT !.result = IF @.ok THEN Ok(<<"Bytes", @.value[2][1]>>) ELSE @]
      [] call.op = "get_ranges" -> BackendGetRanges(s, a.location, a.ranges)
      [] call.op = "head" -> BackendHead(s, a.location)
      [] call.op = "delete" -> BackendDelete(s, a.location)
      [] call.op = "list" -> BackendList(s, a.prefix, 0)
      [] call.op = "list_with_offset" -> BackendList(s, a.prefix, Position(a.offset))
      [] call.op = "list_with_delimiter" -> BackendListWithDelimiter(s, a.prefix)
      [] call.op = "copy" -> BackendCopy(s, a.from, a.to, TRUE, FALSE)
      [] call.op = "rename" -> BackendCopy(s, a.from, a.to, TRUE, TRUE)
      [] call.op = "copy_if_not_exists" -> BackendCopy(s, a.from, a.to, FALSE, FALSE)
      [] call.op = "rename_if_not_exists" -> BackendCopy(s, a.from, a.to, FALSE, TRUE)

----------------------------------------------------------------------------
\* The calls a caller can make

PutCalls == {Call("put", [location |-> l, payload |-> p]) : l \in Locations, p \in Payloads}
PutOptsCalls ==
    {Call("put_opts", [location |-> l, payload |-> p, opts |-> o]) :
        l \in Locations, p \in Payloads, o \in PutOptionsInputs}
PutMultipartCalls == {Call("put_multipart", [location |-> l]) : l \in Locations}
PutMultipartOptsCalls ==
    {Call("put_multipart_opts", [location |-> l, opts |-> o]) :
        l \in Locations, o \in PutMultipartOptionsInputs}
WriteCalls == PutCalls \cup PutOptsCalls \cup PutMultipartCalls \cup PutMultipartOptsCalls

LocationCalls == {Call(op, [location |-> l]) : op \in {"get", "head", "delete"}, l \in Locations}
GetOptsCalls == {Call("get_opts", [location |-> l, options |-> o]) : l \in Locations, o \in GetOptionsInputs}
GetRangeCalls == {Call("get_range", [location |-> l, range |-> r]) : l \in Locations, r \in Ranges}
GetRangesCalls == {Call("get_ranges", [location |-> l, ranges |-> rs]) : l \in Locations, rs \in RangeLists}
ListCalls == {Call(op, [prefix |-> p]) : op \in {"list", "list_with_delimiter"}, p \in Prefixes}
ListWithOffsetCalls == {Call("list_with_offset", [prefix |-> p, offset |-> l]) : p \in Prefixes, l \in Locations}
CopyCalls ==
    {Call(op, [from |-> f, to |-> t]) :
        op \in {"copy", "rename", "copy_if_not_exists", "rename_if_not_exists"},
        f \in Locations, t \in Locations}
ReadCalls ==
    LocationCalls \cup GetOptsCalls \cup GetRangeCalls \cup GetRangesCalls \cup ListCalls
        \cup ListWithOffsetCalls \cup CopyCalls
AllCalls == WriteCalls \cup ReadCalls

\* writes in flight together: those that differ in location and attribute set
ConcurrentCalls ==
    {k \in WriteCalls :
        /\ k.op \in {"put", "put_opts"} => k.args.payload = <<3>>
        /\ k.op = "put_opts" => k.args.opts.mode = "Overwrite" /\ k.args.opts.extensions = ""
        /\ k.op = "put_multipart_opts" => k.args.opts.tags = ""}

----------------------------------------------------------------------------
\* State

Idle ==
    [pc |-> "idle", layer |-> 0, orig |-> NoCall, cur |-> NoCall, sent |-> << >>,
     received |-> << >>, result |-> NoResult, backend_result |-> NoResult]

\* the backend's objects before the first call
InitStores ==
    {[l \in {} |-> Object(<< >>, NoAttributes)],
     [l \in {<<"x">>} |-> Object(<<3>>, NoAttributes)],
     [l \in Locations |-> Object(<<1, 2>>, NoAttributes)]}

\* a stack of depth decorators built over the backend (reference 0), innermost first
Stacks(depth) == [1..depth -> Labels]

Constructed(labels) == [k \in 1..Len(labels) |-> [inner |-> k - 1, storage_class |-> labels[k]]]

InitWith(depths) ==
    /\ \E d \in depths : \E labels \in Stacks(d) :
          /\ constructed = Constructed(labels)
          /\ decorators = [k \in 1..d |-> New(constructed[k].inner, constructed[k].storage_class)]
    /\ store \in InitStores
    /\ calls = [c \in Callers |-> Idle]

Init == InitWith({1})

InitStack == InitWith(1..MaxDepth)

Top == Len(decorators)
Self(c) == decorators[calls[c].layer]
Args(c) == calls[c].cur.args

\* caller c calls the outermost decorator
Invoke(c, inputs) ==
    /\ calls[c].pc \in {"idle", "done"}
    /\ \E call \in inputs :
          calls' = [calls EXCEPT ![c] = [Idle EXCEPT !.pc = "called", !.layer = Top,
                                                     !.orig = call, !.cur = call]]
    /\ UNCHANGED <<decorators, constructed, store>>

\* the decorator of the call's layer runs the handler of op
Handles(c, op) ==
    /\ calls[c].pc = "called"
    /\ calls[c].layer >= 1
    /\ calls[c].cur.op = op

\* self.inner.<op>(..): the call goes to the layer below
Delegate(c, call) ==
    /\ calls' = [calls EXCEPT ![c].cur = call,
                              ![c].layer = Self(c).inner,
                              ![c].sent = Append(@, call)]
    /\ UNCHANGED <<decorators, constructed, store>>

Put(c) == Handles(c, "put") /\ Delegate(c, put(Self(c), Args(c).location, Args(c).payload))

PutOpts(c) ==
    Handles(c, "put_opts") /\ Delegate(c, put_opts(Self(c), Args(c).location, Args(c).payload, Args(c).opts))

PutMultipart(c) == Handles(c, "put_multipart") /\ Delegate(c, put_multipart(Self(c), Args(c).location))

PutMultipartOpts(c) ==
    Handles(c, "put_multipart_opts") /\ Delegate(c, put_multipart_opts(Self(c), Args(c).location, Args(c).opts))

Get(c) == Handles(c, "get") /\ Delegate(c, get(Self(c), Args(c).location))

GetOpts(c) == Handles(c, "get_opts") /\ Delegate(c, get_opts(Self(c), Args(c).location, Args(c).options))

GetRange(c) == Handles(c, "get_range") /\ Delegate(c, get_range(Self(c), Args(c).location, Args(c).range))

GetRanges(c) == Handles(c, "get_ranges") /\ Delegate(c, get_ranges(Self(c), Args(c).location, Args(c).ranges))

HeadOp(c) == Handles(c, "head") /\ Delegate(c, head(Self(c), Args(c).location))

Delete(c) == Handles(c, "delete") /\ Delegate(c, delete(Self(c), Args(c).location))

List(c) == Handles(c, "list") /\ Delegate(c, list(Self(c), Args(c).prefix))

ListWithOffset(c) ==
    Handles(c, "list_with_offset") /\ Delegate(c, list_with_offset(Self(c), Args(c).prefix, Args(c).offset))

ListWithDelimiter(c) ==
    Handles(c, "list_with_delimiter") /\ Delegate(c, list_with_delimiter(Self(c), Args(c).prefix))

Copy(c) == Handles(c, "copy") /\ Delegate(c, copy(Self(c), Args(c).from, Args(c).to))

Rename(c) == Handles(c, "rename") /\ Delegate(c, rename(Self(c), Args(c).from, Args(c).to))

CopyIfNotExists(c) ==
    Handles(c, "copy_if_not_exists") /\ Delegate(c, copy_if_not_exists(Self(c), Args(c).from, Args(c).to))

RenameIfNotExists(c) ==
    Handles(c, "rename_if_not_exists") /\ Delegate(c, rename_if_not_exists(Self(c), Args(c).from, Args(c).to))

\* the backend runs the call that reached it and answers
BackendExec(c) ==
    /\ calls[c].pc = "called"
    /\ calls[c].layer = 0
    /\ LET b == Backend(store, calls[c].cur) IN
          /\ store' = b.store
          /\ calls' = [calls EXCEPT ![c].pc = "returning",
                                    ![c].received = Append(@, calls[c].cur),
                                    ![c].backend_result = b.result,
                                    ![c].result = b.result]
    /\ UNCHANGED <<decorators, constructed>>

\* a handler that calls the backend again when its call failed
ReturnWithRetry(c) ==
    /\ calls[c].pc = "returning"
    /\ calls' = IF calls[c].result.ok
                THEN [calls EXCEPT ![c].layer = @ + 1,
                                   ![c].pc = IF calls[c].layer + 1 = Len(decorators) THEN "done" ELSE "returning"]
                ELSE [calls EXCEPT ![c].pc = "called"]
    /\ UNCHANGED <<decorators, constructed, store>>

\* the handler one layer up resumes from its await and returns
Return(c) ==
    /\ calls[c].pc = "returning"
    /\ calls' = [calls EXCEPT ![c].layer = @ + 1,
                              ![c].result = returned(@),
                              ![c].pc = IF calls[c].layer + 1 = Top THEN "done" ELSE "returning"]
    /\ UNCHANGED <<decorators, constructed, store>>

\* one decorator over the backend, one call at a time, every operation
Next ==
    \E c \in {1} :
        \/ Invoke(c, AllCalls)
        \/ Put(c) \/ PutOpts(c) \/ PutMultipart(c) \/ PutMultipartOpts(c)
        \/ Get(c) \/ GetOpts(c) \/ GetRange(c) \/ GetRanges(c) \/ HeadOp(c) \/ Delete(c)
        \/ List(c) \/ ListWithOffset(c) \/ ListWithDelimiter(c)
        \/ Copy(c) \/ Rename(c) \/ CopyIfNotExists(c) \/ RenameIfNotExists(c)
        \/ BackendExec(c)
        \/ Return(c)

Spec == Init /\ [][Next]_vars

\* one decorator over the backend, the writes of all callers in flight together
NextConc ==
    \E c \in Callers :
        \/ Invoke(c, ConcurrentCalls)
        \/ Put(c) \/ PutOpts(c) \/ PutMultipart(c) \/ PutMultipartOpts(c)
        \/ BackendExec(c)
        \/ Return(c)

SpecConc == Init /\ [][NextConc]_vars

\* decorators stacked over the backend, one write at a time
NextStack ==
    \E c \in {1} :
        \/ Invoke(c, WriteCalls)
        \/ Put(c) \/ PutOpts(c) \/ PutMultipart(c) \/ PutMultipartOpts(c)
        \/ BackendExec(c)
        \/ Return(c)

SpecStack == InitStack /\ [][NextStack]_vars

----------------------------------------------------------------------------
\* Properties

Label == decorators[1].storage_class
IsWrite(c) == calls[c].orig.op \in WriteOps
HasOptions(call) == call.op \in {"put_opts", "put_multipart_opts"}
\* the backend has received the call of caller c
Reached(c) == Len(calls[c].received) > 0
\* the attribute set a caller supplied with its call: none without options
OwnAttributes(call) == IF HasOptions(call) THEN call.args.opts.attributes ELSE NoAttributes
\* got is own with the storage-class entry set to label and nothing else changed
MergedFrom(own, got, label) ==
    /\ DOMAIN got = DOMAIN own \cup {StorageClass}
    /\ got[StorageClass] = label
    /\ \A k \in DOMAIN own \ {StorageClass} : got[k] = own[k]

\* C1 (override): the call of a write operation that reaches the backend carries
\* a StorageClass attribute equal to the decorator's label, whatever the caller
\* supplied.
C1_Override ==
    \A c \in Callers :
        IsWrite(c) =>
            \A i \in 1..Len(calls[c].received) :
                LET k == calls[c].received[i] IN
                /\ HasOptions(k)
                /\ StorageClass \in DOMAIN k.args.opts.attributes
                /\ k.args.opts.attributes[StorageClass] = Label

C1_Witness ==
    \E c \in Callers :
        /\ calls[c].pc = "done"
        /\ calls[c].result.ok
        /\ calls[c].orig.op = "put_opts"
        /\ StorageClass \in DOMAIN calls[c].orig.args.opts.attributes
        /\ calls[c].orig.args.opts.attributes[StorageClass] # Label

\* C2 (non-destructive merge): put_opts and put_multipart_opts reach the backend
\* with every attribute other than StorageClass as the caller gave it, no other
\* attribute key added or removed, and the other option fields, the location and
\* the payload unchanged.
C2_NonDestructiveMerge ==
    \A c \in Callers :
        (HasOptions(calls[c].orig) /\ Reached(c)) =>
            LET o == calls[c].orig
                k == calls[c].received[1] IN
            /\ k.op = o.op
            /\ k.args.location = o.args.location
            /\ o.op = "put_opts" => k.args.payload = o.args.payload
            /\ DOMAIN k.args.opts.attributes \ {StorageClass} = DOMAIN o.args.opts.attributes \ {StorageClass}
            /\ \A a \in DOMAIN o.args.opts.attributes \ {StorageClass} :
                  k.args.opts.attributes[a] = o.args.opts.attributes[a]
            /\ [k.args.opts EXCEPT !.attributes = NoAttributes] = [o.args.opts EXCEPT !.attributes = NoAttributes]

C2_Witness ==
    \E c \in Callers :
        /\ calls[c].pc = "done"
        /\ calls[c].orig.op = "put_multipart_opts"
        /\ calls[c].orig.args.opts.tags = "k=v"
        /\ DOMAIN calls[c].orig.args.opts.attributes = {ContentType}

\* C3 (option-less writes): put reaches the backend as put_opts and put_multipart
\* as put_multipart_opts, with the caller's location (and payload), the attribute
\* set {StorageClass: label} and every other option field at its default.
C3_OptionlessWrites ==
    \A c \in Callers :
        Reached(c) =>
            LET o == calls[c].orig
                only == [a \in {StorageClass} |-> Label] IN
            /\ o.op = "put" =>
                  calls[c].received =
                      <<Call("put_opts", [location |-> o.args.location, payload |-> o.args.payload,
                                          opts |-> [mode |-> "Overwrite", tags |-> "",
                                                    attributes |-> only, extensions |-> ""]])>>
            /\ o.op = "put_multipart" =>
                  calls[c].received =
                      <<Call("put_multipart_opts", [location |-> o.args.location,
                                                    opts |-> [tags |-> "", attributes |-> only,
                                                              extensions |-> ""]])>>

C3_Witness ==
    \E c \in Callers :
        /\ calls[c].pc = "done"
        /\ calls[c].orig.op = "put"
        /\ calls[c].result.ok
        /\ calls[c].orig.args.location \in DOMAIN store
        /\ store[calls[c].orig.args.location].attributes = [a \in {StorageClass} |-> Label]

\* C4 (pass-through): when the backend runs the call of a non-write operation it
\* has received that operation with the caller's arguments, and its new objects
\* and its result are those of the caller's call made on the backend directly.
C4_PassThrough ==
    [][\A c \in Callers :
          (/\ ~IsWrite(c)
           /\ calls[c].pc = "called"
           /\ calls[c].layer = 0
           /\ calls'[c].pc = "returning") =>
              /\ calls'[c].received = <<calls[c].orig>>
              /\ store' = Backend(store, calls[c].orig).store
              /\ calls'[c].result = Backend(store, calls[c].orig).result]_vars

C4_Witness ==
    \E c \in Callers :
        /\ calls[c].pc = "done"
        /\ calls[c].orig.op = "rename_if_not_exists"
        /\ calls[c].result.ok
        /\ calls[c].orig.args.from \notin DOMAIN store
        /\ calls[c].orig.args.to \in DOMAIN store

\* C5 (propagation): what a decorator operation returns is what the backend
\* returned for the delegated call, error or success.
C5_Propagation ==
    \A c \in Callers :
        calls[c].pc \in {"returning", "done"} => calls[c].result = calls[c].backend_result

C5_Witness ==
    \E c \in Callers :
        /\ calls[c].pc = "done"
        /\ calls[c].orig.op = "put_opts"
        /\ ~calls[c].result.ok
        /\ calls[c].result.err = "AlreadyExists"

\* C6 (one backend call): a decorator call causes exactly one backend call, also
\* when that call fails, and a non-write operation causes no write call.
C6_OneBackendCall ==
    \A c \in Callers :
        /\ calls[c].pc = "called" => Len(calls[c].received) = 0
        /\ calls[c].pc \in {"returning", "done"} => Len(calls[c].received) = 1
        /\ ~IsWrite(c) => \A i \in 1..Len(calls[c].received) : calls[c].received[i].op \notin WriteOps

C6_Witness ==
    \E c \in Callers :
        /\ calls[c].pc = "done"
        /\ calls[c].orig.op = "delete"
        /\ ~calls[c].result.ok
        /\ Len(calls[c].received) = 1

\* C7 (immutable configuration): after any operations the decorator's label and
\* backend reference are those given to new().
C7_ImmutableConfiguration ==
    /\ DOMAIN decorators = DOMAIN constructed
    /\ \A k \in DOMAIN decorators :
          /\ decorators[k].storage_class = constructed[k].storage_class
          /\ decorators[k].inner = constructed[k].inner

C7_Witness ==
    /\ constructed[1].storage_class = "GLACIER"
    /\ \E c \in Callers :
          /\ calls[c].pc = "done"
          /\ calls[c].orig.op = "put_opts"
          /\ ~calls[c].result.ok

\* C8 (determinism): two calls with the same arguments reach the backend as the
\* same call, whatever happened between them, and a put reaches it as the
\* put_opts call a caller would make directly with {StorageClass: label}.
C8_Determinism ==
    \A c1 \in Callers, c2 \in Callers :
        (Reached(c1) /\ Reached(c2) /\ calls[c1].orig = calls[c2].orig) =>
            /\ calls[c1].received = calls[c2].received
            /\ calls[c1].orig.op = "put" =>
                  calls[c1].received[1] =
                      Call("put_opts", [location |-> calls[c1].orig.args.location,
                                        payload |-> calls[c1].orig.args.payload,
                                        opts |-> [PutOptionsDefault EXCEPT
                                                     !.attributes = [a \in {StorageClass} |-> Label]]])

C8_Witness ==
    \E c1 \in Callers, c2 \in Callers :
        /\ c1 # c2
        /\ calls[c1].pc = "done"
        /\ calls[c2].pc = "done"
        /\ calls[c1].orig.op = "put"
        /\ calls[c1].orig = calls[c2].orig
        /\ calls[c1].result.ok
        /\ calls[c2].result.ok

\* C9 (isolation): with several writes in flight, each delegated call carries
\* its own caller's attribute set with StorageClass set to the label.
C9_Isolation ==
    \A c \in Callers :
        IsWrite(c) =>
            /\ \A i \in 1..Len(calls[c].sent) :
                  /\ HasOptions(calls[c].sent[i])
                  /\ MergedFrom(OwnAttributes(calls[c].orig), calls[c].sent[i].args.opts.attributes, Label)
            /\ Reached(c) => calls[c].received = calls[c].sent

C9_Witness ==
    \E c1 \in Callers, c2 \in Callers :
        /\ calls[c1].pc = "called" /\ calls[c1].layer = 0
        /\ calls[c2].pc = "called" /\ calls[c2].layer = 0
        /\ calls[c1].orig.op = "put_opts"
        /\ calls[c2].orig.op = "put_opts"
        /\ DOMAIN calls[c1].orig.args.opts.attributes = {ContentType}
        /\ DOMAIN calls[c2].orig.args.opts.attributes = {StorageClass}

\* C10 (stacked decorators): a write through a stack reaches the backend with the
\* StorageClass of the decorator next to the backend and the caller's other
\* attributes, and a decorator under one with the same label changes nothing.
C10_Stacked ==
    \A c \in Callers :
        (IsWrite(c) /\ Reached(c)) =>
            /\ Len(calls[c].sent) = Len(decorators)
            /\ HasOptions(calls[c].received[1])
            /\ MergedFrom(OwnAttributes(calls[c].orig), calls[c].received[1].args.opts.attributes,
                          decorators[1].storage_class)
            /\ \A i \in 1..(Len(calls[c].sent) - 1) :
                  decorators[Len(decorators) - i + 1].storage_class = decorators[Len(decorators) - i].storage_class
                      => calls[c].sent[i + 1] = calls[c].sent[i]

C10_Witness ==
    /\ Len(decorators) = 2
    /\ decorators[1].storage_class # decorators[2].storage_class
    /\ \E c \in Callers :
          /\ calls[c].pc = "done"
          /\ calls[c].orig.op = "put_multipart_opts"
          /\ calls[c].result.ok
          /\ DOMAIN calls[c].orig.args.opts.attributes = AttrKeys
          /\ calls[c].orig.args.opts.attributes[StorageClass] = decorators[2].storage_class

====
